---- MODULE Spec2Model ----
(***************************************************************************)
(* Model of src/src/lib.rs: the streaming iterator `Partitions` over the   *)
(* integer partitions of n (Kelleher's accelerated ascending-composition   *)
(* algorithm), its constructors `new` and `recycle`, `end`, `get` and      *)
(* `advance`.                                                              *)
(*                                                                         *)
(* The Rust vector `a` is 0-indexed; here it is a sequence, so the cell    *)
(* a[i] of the source is a[i + 1] below (see At and Set).  Every index     *)
(* into the vector and every usize subtraction of the source is guarded:   *)
(* an index outside the vector or a subtraction below zero sets `panic`.   *)
(***************************************************************************)
EXTENDS Integers, Sequences, FiniteSets, TLC

\* ---------------------------------------------------------------- bounds
MaxN == 8          \* largest n a generator is built for
MaxVecLen == 2     \* longest caller-supplied storage vector in Init
MaxRuns == 2       \* generators built one after another on the same storage

\* contents a caller-supplied storage vector may hold
StorageVals == {0, 3}

VARIABLES
    n,        \* the argument of new / recycle
    a,        \* Partitions.a
    k,        \* Partitions.k
    y,        \* Partitions.y
    next,     \* Partitions.next
    panic,    \* TRUE once an index or subtraction of the source has failed
    iters,    \* iterations of the while loop in the last advance
    loops,    \* iterations of the while loop since construction
    emitted,  \* the views get() showed after each advance, in order
    result,   \* what the last call of get returned
    op,       \* the last operation called
    advanced, \* TRUE once advance was called on this generator
    past_end, \* TRUE once advance was called on an exhausted generator
    entered,  \* x + y, k and l when State::B was entered, and the advances
              \* that stayed in State::B since (NoSplit in State::A)
    built,    \* "new" or "recycle": the constructor of this generator
    storage,  \* the vector handed to recycle (<<>> for new)
    runs      \* generators built so far on this storage

vars == <<n, a, k, y, next, panic, iters, loops, emitted, result, op,
          advanced, past_end, entered, built, storage, runs>>

\* ------------------------------------------------------------ data types
\* enum State { A, B { x, l } }
A == [tag |-> "A", x |-> 0, l |-> 0]
B(x, l) == [tag |-> "B", x |-> x, l |-> l]

\* struct Partitions { a, k, y, next }, with the two observation fields
Partitions(a_, k_, y_, next_) ==
    [a |-> a_, k |-> k_, y |-> y_, next |-> next_, panic |-> FALSE, iters |-> 0]

\* Option<&[usize]>
None == [some |-> FALSE, view |-> <<>>, panic |-> FALSE]
Some(v) == [some |-> TRUE, view |-> v, panic |-> FALSE]
\* a call of get that indexes outside the vector
GetPanics == [some |-> FALSE, view |-> <<>>, panic |-> TRUE]

\* a[i] and a[i] = v of the source (0-indexed)
At(v, i) == v[i + 1]
Set(v, i, w) == [v EXCEPT ![i + 1] = w]
InBounds(v, i) == i < Len(v)
Panicked(self) == [self EXCEPT !.panic = TRUE]

\* ---------------------------------------------------------- constructors
\* vec![0; m]
Zeros(m) == [i \in 1..m |-> 0]

new_short(m) ==
    IF m = 0
    THEN Partitions(<<1>>, 0, 0, A)
    ELSE Partitions(Zeros(m), 1, m - 1, A)

new(m) ==
    IF m = 0
    THEN Partitions(<<1>>, 0, 0, A)
    ELSE Partitions(Zeros(m + 1), 1, m - 1, A)

\* Vec::clear
clear(vec) == SubSeq(vec, 1, 0)

\* for _ in 0..m { vec.push(0) }
RECURSIVE push_zeros(_, _)
push_zeros(vec, m) ==
    IF m = 0 THEN vec ELSE push_zeros(Append(vec, 0), m - 1)

recycle_noclear(m, vec) ==
    IF m = 0
    THEN Partitions(Append(vec, 1), 0, 0, A)
    ELSE Partitions(push_zeros(vec, m + 1), 1, m - 1, A)

recycle(m, vec) ==
    LET v == clear(vec) IN
    IF m = 0
    THEN Partitions(Append(v, 1), 0, 0, A)
    ELSE Partitions(push_zeros(v, m + 1), 1, m - 1, A)

end(self) == self.a

\* -------------------------------------------------------------------- get
get_short(self) ==
    IF self.next = A /\ self.k = 0
    THEN IF ~InBounds(self.a, 0) THEN GetPanics
         ELSE IF At(self.a, 0) = 0 \/ Len(self.a) = 1
         THEN IF At(self.a, 0) = 0 THEN None ELSE Some(<<>>)
         ELSE Some(SubSeq(self.a, 1, 1))
    ELSE IF self.k + 1 > Len(self.a) THEN GetPanics
         ELSE Some(SubSeq(self.a, 1, self.k + 1))

get(self) ==
    LET m == self.k + (IF self.next = A THEN 1 ELSE 2) IN
    IF self.next = A /\ self.k = 0
    THEN IF ~InBounds(self.a, 0) THEN GetPanics
         ELSE IF At(self.a, 0) = 0 \/ Len(self.a) = 1
         THEN IF At(self.a, 0) = 0 THEN None ELSE Some(<<>>)
         ELSE IF m > Len(self.a) THEN GetPanics
         ELSE Some(SubSeq(self.a, 1, m))
    ELSE IF m > Len(self.a) THEN GetPanics
         ELSE Some(SubSeq(self.a, 1, m))

\* ---------------------------------------------------------------- advance
\* State::A, k == 0: the terminal boundary (lines 118-123)
at_boundary_nosentinel(self) ==
    IF ~InBounds(self.a, 0) THEN Panicked(self)
    ELSE IF Len(self.a) = 1 /\ At(self.a, 0) = 1
    THEN [self EXCEPT !.a = Set(self.a, 0, 2)]
    ELSE self

at_boundary_nozero(self) ==
    IF ~InBounds(self.a, 0) THEN Panicked(self)
    ELSE [self EXCEPT !.a = Set(self.a, 0, 0)]

at_boundary_toggle(self) ==
    IF ~InBounds(self.a, 0) THEN Panicked(self)
    ELSE IF Len(self.a) = 1 /\ At(self.a, 0) # 2
    THEN [self EXCEPT !.a = Set(self.a, 0, 2)]
    ELSE [self EXCEPT !.a = Set(self.a, 0, 0)]

at_boundary_nolen(self) ==
    IF ~InBounds(self.a, 0) THEN Panicked(self)
    ELSE IF At(self.a, 0) = 1
    THEN [self EXCEPT !.a = Set(self.a, 0, 2)]
    ELSE [self EXCEPT !.a = Set(self.a, 0, 0)]

at_boundary(self) ==
    IF ~InBounds(self.a, 0) THEN Panicked(self)
    ELSE IF Len(self.a) = 1 /\ At(self.a, 0) = 1
    THEN [self EXCEPT !.a = Set(self.a, 0, 2)]
    ELSE [self EXCEPT !.a = Set(self.a, 0, 0)]

RECURSIVE while_loop_nostep(_, _)
while_loop_nostep(self, x) ==
    IF 2 * x <= self.y
    THEN IF ~InBounds(self.a, self.k) \/ self.y < x
         THEN Panicked(self)
         ELSE CHOOSE r \in {while_loop_nostep(s, x) :
                             s \in {[self EXCEPT !.a = Set(self.a, self.k, x),
                                                 !.y = self.y - x,
                                                 !.iters = self.iters + 1]}} : TRUE
    ELSE self

\* while 2 * x <= *y { a[*k] = x; *y -= x; *k += 1; }  (lines 128-132)
\* (s is the generator after one iteration; the loop continues from it)
RECURSIVE while_loop(_, _)
while_loop(self, x) ==
    IF 2 * x <= self.y
    THEN IF ~InBounds(self.a, self.k) \/ self.y < x
         THEN Panicked(self)
         ELSE CHOOSE r \in {while_loop(s, x) :
                             s \in {[self EXCEPT !.a = Set(self.a, self.k, x),
                                                 !.y = self.y - x,
                                                 !.k = self.k + 1,
                                                 !.iters = self.iters + 1]}} : TRUE
    ELSE self

\* the end of the State::A branch (lines 134-143)
lay_tail_strict(self, x) ==
    LET l == self.k + 1 IN
    IF x < self.y
    THEN IF ~InBounds(self.a, self.k) \/ ~InBounds(self.a, l)
         THEN Panicked(self)
         ELSE [self EXCEPT !.a = Set(Set(self.a, self.k, x), l, self.y),
                           !.next = B(x, l)]
    ELSE IF ~InBounds(self.a, self.k) \/ x + self.y < 1
         THEN Panicked(self)
         ELSE [self EXCEPT !.a = Set(self.a, self.k, x + self.y),
                           !.y = x + self.y - 1]

lay_tail_far(self, x) ==
    LET l == self.k + 2 IN
    IF x <= self.y
    THEN IF ~InBounds(self.a, self.k) \/ ~InBounds(self.a, l)
         THEN Panicked(self)
         ELSE [self EXCEPT !.a = Set(Set(self.a, self.k, x), l, self.y),
                           !.next = B(x, l)]
    ELSE IF ~InBounds(self.a, self.k) \/ x + self.y < 1
         THEN Panicked(self)
         ELSE [self EXCEPT !.a = Set(self.a, self.k, x + self.y),
                           !.y = x + self.y - 1]

lay_tail(self, x) ==
    LET l == self.k + 1 IN
    IF x <= self.y
    THEN IF ~InBounds(self.a, self.k) \/ ~InBounds(self.a, l)
         THEN Panicked(self)
         ELSE [self EXCEPT !.a = Set(Set(self.a, self.k, x), l, self.y),
                           !.next = B(x, l)]
    ELSE IF ~InBounds(self.a, self.k) \/ x + self.y < 1
         THEN Panicked(self)
         ELSE [self EXCEPT !.a = Set(self.a, self.k, x + self.y),
                           !.y = x + self.y - 1]

\* State::A, k > 0 (lines 125-143)
descend_from_zero(self) ==
    LET k1 == self.k - 1 IN
    IF ~InBounds(self.a, k1) THEN Panicked(self)
    ELSE LET x == At(self.a, k1) IN
         lay_tail(while_loop([self EXCEPT !.k = k1], x), x)

descend(self) ==
    LET k1 == self.k - 1 IN
    IF ~InBounds(self.a, k1) THEN Panicked(self)
    ELSE LET x == At(self.a, k1) + 1 IN
         lay_tail(while_loop([self EXCEPT !.k = k1], x), x)

\* State::B { mut x, l } (lines 146-159)
split_stuck(self) ==
    LET x == self.next.x + 1
        l == self.next.l
    IN  IF self.y < 1 THEN Panicked(self)
        ELSE LET y1 == self.y - 1 IN
             IF x <= y1
             THEN IF ~InBounds(self.a, self.k) \/ ~InBounds(self.a, l)
                  THEN Panicked(self)
                  ELSE [self EXCEPT !.a = Set(Set(self.a, self.k, x), l, y1),
                                    !.y = y1,
                                    !.next = B(x, l)]
             ELSE IF ~InBounds(self.a, self.k) \/ x + y1 < 1
                  THEN Panicked(self)
                  ELSE [self EXCEPT !.a = Set(self.a, self.k, x + y1),
                                    !.y = x + y1 - 1]

split_nomirror(self) ==
    LET x == self.next.x + 1
        l == self.next.l
    IN  IF self.y < 1 THEN Panicked(self)
        ELSE LET y1 == self.y - 1 IN
             IF x <= y1
             THEN IF ~InBounds(self.a, self.k) \/ ~InBounds(self.a, l)
                  THEN Panicked(self)
                  ELSE [self EXCEPT !.a = Set(self.a, self.k, x),
                                    !.y = y1,
                                    !.next = B(x, l)]
             ELSE IF ~InBounds(self.a, self.k) \/ x + y1 < 1
                  THEN Panicked(self)
                  ELSE [self EXCEPT !.a = Set(self.a, self.k, x + y1),
                                    !.y = x + y1 - 1,
                                    !.next = A]

split(self) ==
    LET x == self.next.x + 1
        l == self.next.l
    IN  IF self.y < 1 THEN Panicked(self)
        ELSE LET y1 == self.y - 1 IN
             IF x <= y1
             THEN IF ~InBounds(self.a, self.k) \/ ~InBounds(self.a, l)
                  THEN Panicked(self)
                  ELSE [self EXCEPT !.a = Set(Set(self.a, self.k, x), l, y1),
                                    !.y = y1,
                                    !.next = B(x, l)]
             ELSE IF ~InBounds(self.a, self.k) \/ x + y1 < 1
                  THEN Panicked(self)
                  ELSE [self EXCEPT !.a = Set(self.a, self.k, x + y1),
                                    !.y = x + y1 - 1,
                                    !.next = A]

advance(self) ==
    LET s == [self EXCEPT !.iters = 0] IN
    IF s.next = A
    THEN IF s.k = 0 THEN at_boundary(s) ELSE descend(s)
    ELSE split(s)

\* ---------------------------------------------------------- state machine
\* the generator held in the variables
this == [a |-> a, k |-> k, y |-> y, next |-> next, panic |-> panic, iters |-> iters]

\* value of `entered` while the generator is in State::A
NoSplit == [sum |-> 0, k |-> 0, l |-> 0, steps |-> 0]

\* the storage vectors a caller hands to recycle in Init
Vecs == UNION {[1..m -> StorageVals] : m \in 0..MaxVecLen}

Install(p) ==
    /\ a = p.a /\ k = p.k /\ y = p.y /\ next = p.next
    /\ panic = p.panic /\ iters = p.iters

Init ==
    /\ n \in 0..MaxN
    /\ \/ built = "new" /\ storage = <<>> /\ Install(new(n))
       \/ built = "recycle" /\ storage \in Vecs /\ Install(recycle(n, storage))
    /\ loops = 0
    /\ emitted = <<>>
    /\ result = None
    /\ op = built
    /\ advanced = FALSE
    /\ past_end = FALSE
    /\ entered = NoSplit
    /\ runs = 1

\* StreamingIterator::advance; `emitted` records what get shows afterwards
Advance ==
    /\ ~panic
    /\ LET p == advance(this)
           g == get(p)
       IN  /\ a' = p.a /\ k' = p.k /\ y' = p.y /\ next' = p.next
           /\ panic' = (p.panic \/ g.panic)
           /\ iters' = p.iters
           /\ loops' = loops + p.iters
           /\ emitted' = IF g.some THEN Append(emitted, g.view) ELSE emitted
    /\ op' = "advance"
    /\ advanced' = TRUE
    /\ past_end' = (past_end \/ (advanced /\ get(this) = None))
    /\ entered' = IF next'.tag # "B" THEN NoSplit
                  ELSE IF next.tag = "B"
                  THEN [entered EXCEPT !.steps = entered.steps + 1]
                  ELSE [sum |-> next'.x + y', k |-> k', l |-> next'.l, steps |-> 0]
    /\ UNCHANGED <<n, result, built, storage, runs>>

\* StreamingIterator::get takes &self
GetMoves ==
    /\ ~panic
    /\ result' = get(this)
    /\ panic' = result'.panic
    /\ op' = "get"
    /\ k' = IF k > 0 THEN k - 1 ELSE k
    /\ UNCHANGED <<n, a, y, next, iters, loops, emitted, advanced,
                   past_end, entered, built, storage, runs>>

Get ==
    /\ ~panic
    /\ result' = get(this)
    /\ panic' = result'.panic
    /\ op' = "get"
    /\ UNCHANGED <<n, a, k, y, next, iters, loops, emitted, advanced,
                   past_end, entered, built, storage, runs>>

\* end(self) followed by recycle(m, vec) on the vector it returned
Recycle ==
    /\ ~panic
    /\ runs < MaxRuns
    /\ \E m \in 0..MaxN :
        LET vec == end(this)
            p == recycle(m, vec)
        IN  /\ n' = m
            /\ storage' = vec
            /\ a' = p.a /\ k' = p.k /\ y' = p.y /\ next' = p.next
            /\ panic' = p.panic /\ iters' = p.iters
    /\ loops' = 0
    /\ emitted' = <<>>
    /\ result' = None
    /\ op' = "recycle"
    /\ advanced' = FALSE
    /\ past_end' = FALSE
    /\ entered' = NoSplit
    /\ built' = "recycle"
    /\ runs' = runs + 1

Next == Advance \/ Get

Spec == Init /\ [][Next]_vars

\* a caller that keeps calling advance
LiveSpec == Init /\ [][Next]_vars /\ WF_vars(Advance)

NextReuse == Advance \/ Get \/ Recycle

ReuseSpec == Init /\ [][NextReuse]_vars

\* ------------------------------------------------------------ vocabulary
Range(s) == {s[i] : i \in 1..Len(s)}

RECURSIVE Sum(_)
Sum(s) == IF s = <<>> THEN 0 ELSE Head(s) + Sum(Tail(s))

\* advance was called and get returns None
Exhausted == advanced /\ get(this) = None

\* s is a non-decreasing sequence of strictly positive integers summing to m
IsPartition(s, m) ==
    /\ Sum(s) = m
    /\ \A i \in 1..Len(s) : s[i] > 0
    /\ \A i \in 1..(Len(s) - 1) : s[i] <= s[i + 1]

\* all non-decreasing sequences of integers >= lo summing to m
RECURSIVE AscFrom(_, _)
AscFrom(m, lo) ==
    IF m = 0 THEN {<<>>}
    ELSE UNION {{<<f>> \o s : s \in AscFrom(m - f, f)} : f \in lo..m}

AllPartitions(m) == AscFrom(m, 1)

\* the table of A000041 in the test oeis (lines 168-176); A000041(m) = tests[m + 1]
tests == <<1, 1, 2, 3, 5, 7, 11, 15, 22,
           30, 42, 56, 77, 101, 135, 176, 231,
           297, 385, 490, 627, 792, 1002, 1255, 1575,
           1958, 2436, 3010, 3718, 4565, 5604, 6842, 8349,
           10143, 12310, 14883, 17977, 21637, 26015, 31185, 37338,
           44583, 53174, 63261, 75175, 89134, 105558, 124754, 147273,
           173525>>

A000041(m) == tests[m + 1]

\* the views a generator shows from state p on, one advance-then-get at a
\* time, until get returns None (at most fuel of them)
RECURSIVE Drain(_, _)
Drain(p, fuel) ==
    IF fuel = 0 \/ p.panic THEN <<>>
    ELSE LET q == advance(p)
             g == get(q)
         IN  IF g.some THEN <<g.view>> \o Drain(q, fuel - 1) ELSE <<>>

IsPrefix(s, t) == Len(s) <= Len(t) /\ s = SubSeq(t, 1, Len(s))

\* ------------------------------------------------------------------ claims

\* C1: draining a generator for n produces exactly A000041(n) partitions:
\* never more than that many views are shown, and exactly that many have been
\* shown once get returns None.
C1_Count ==
    /\ Len(emitted) <= A000041(n)
    /\ Exhausted => Len(emitted) = A000041(n)

C1_Witness == Exhausted /\ n = 7 /\ ~panic

\* C2: every view read after at least one advance sums to n, has only
\* strictly positive parts and is non-decreasing.
C2_Views ==
    /\ \A i \in 1..Len(emitted) : IsPartition(emitted[i], n)
    /\ (advanced /\ op = "get" /\ result.some) => IsPartition(result.view, n)

C2_Witness ==
    /\ advanced /\ op = "get" /\ result.some
    /\ n = 6 /\ Len(result.view) = 3 /\ next.tag = "B"

\* C3: within one run no two emitted partitions are equal as sequences.
C3_Distinct ==
    \A i, j \in 1..Len(emitted) : i # j => emitted[i] # emitted[j]

C3_Witness == Exhausted /\ n = 6 /\ Len(emitted) > 5

\* C4: the views emitted by a full drain are exactly the non-decreasing
\* sequences of positive integers summing to n; n = 1 gives [1] alone and
\* n = 4 gives [4], [1,3], [2,2], [1,1,2], [1,1,1,1] and nothing else.
C4_AllPartitions ==
    /\ Range(emitted) \subseteq AllPartitions(n)
    /\ Exhausted => Range(emitted) = AllPartitions(n)
    /\ (Exhausted /\ n = 1) => Range(emitted) = {<<1>>}
    /\ (Exhausted /\ n = 4) =>
           Range(emitted) = {<<4>>, <<1, 3>>, <<2, 2>>, <<1, 1, 2>>, <<1, 1, 1, 1>>}

C4_Witness == Exhausted /\ n = 4 /\ Cardinality(Range(emitted)) = 5

\* C5: exhaustion is absorbing: once get returns None, every later advance
\* leaves get returning None, fails nowhere and shows no partition again, and
\* every read returns None.
C5_Absorbing ==
    [][Exhausted =>
         /\ Exhausted'
         /\ ~panic'
         /\ emitted' = emitted
         /\ (op' = "get" => result' = None)]_vars

C5_Witness == past_end /\ n = 0 /\ op = "advance" /\ Exhausted

\* C6: for n = 0 the first advance-then-get yields the empty sequence (a
\* view, not None), the second yields None, and exactly one partition is
\* produced.
C6_Zero ==
    /\ [](n = 0 /\ advanced => emitted = << <<>> >>)
    /\ [][(n = 0 /\ ~advanced /\ advanced') => get(this)' = Some(<<>>)]_vars
    /\ [][(n = 0 /\ advanced /\ ~Exhausted /\ op' = "advance")
             => get(this)' = None]_vars

C6_Witness == n = 0 /\ Exhausted /\ emitted = << <<>> >> /\ built = "new"

\* C7: a generator built by recycle(n, storage), whatever the storage holds,
\* emits the same partitions as one built by new(n).
C7_Reuse ==
    built = "recycle" =>
        LET fresh == Drain(new(n), A000041(n) + 1) IN
        /\ IsPrefix(emitted, fresh)
        /\ Exhausted => emitted = fresh
        /\ ~advanced => get(this) = get(new(n))

C7_Witness ==
    /\ built = "recycle" /\ runs = 2
    /\ Len(storage) > n + 1 /\ Range(storage) # {0}
    /\ n = 4 /\ Exhausted

\* C8: get never changes the generator: a call of get leaves a, k, y and next
\* as they were, and a get that follows a get returns the same result.
C8_GetFrame ==
    [][op' = "get" =>
         /\ a' = a /\ k' = k /\ y' = y /\ next' = next
         /\ result' = get(this)
         /\ (op = "get" => result' = result)]_vars

C8_Witness == op = "get" /\ advanced /\ result.some /\ next.tag = "B" /\ n = 5

\* C9: advance and get cannot fail: every index used is inside the buffer of
\* length n + 1 and no unsigned subtraction goes below zero.
C9_Total ==
    /\ ~panic
    /\ Len(a) = n + 1
    /\ k < Len(a)
    /\ k + (IF next = A THEN 1 ELSE 2) <= Len(a)
    /\ next.tag = "B" => (next.l = k + 1 /\ next.l < Len(a) /\ y >= 1)

C9_Witness == past_end /\ n = 6 /\ op = "get" /\ built = "recycle" /\ ~panic

\* C10: a generator that keeps being advanced reaches exhaustion, and the
\* while loop of one advance runs at most y times (y drops by x >= 1 each time).
C10_Terminates ==
    /\ <>Exhausted
    /\ [][op' = "advance" => iters' <= y]_vars

C10_Witness == Exhausted /\ n = 8 /\ loops > 8

\* C11: over a full drain of a generator for n >= 1 the iterations of the
\* while loop, summed over all advances, are at most the number of partitions
\* produced.
C11_Amortized ==
    (Exhausted /\ n >= 1) => loops <= Len(emitted)

C11_Witness == Exhausted /\ n = 7 /\ loops >= 7 /\ Len(emitted) = 15

\* C12: while the generator stays in State::B, a[k] + a[l] is constant and
\* equals the x + y captured when State::B was entered; each advance that
\* stays in State::B raises a[k] by one and lowers a[l] by one.
C12_SplitSum ==
    /\ [](next.tag = "B" =>
            /\ InBounds(a, k) /\ InBounds(a, next.l)
            /\ At(a, k) + At(a, next.l) = entered.sum)
    /\ [][(next.tag = "B" /\ next'.tag = "B" /\ op' = "advance") =>
             /\ At(a', k') = At(a, k) + 1
             /\ At(a', next'.l) = At(a, next.l) - 1]_vars

C12_Witness ==
    /\ next.tag = "B" /\ entered.steps >= 1 /\ n = 8
    /\ At(a, k) + At(a, next.l) = entered.sum

\* C13: in State::B { x, l }: l = k + 1, 1 <= x <= y, a[k] = x and a[l] = y,
\* and k and l are the ones State::B was entered with.
C13_SplitShape ==
    next.tag = "B" =>
        /\ next.l = k + 1
        /\ 1 <= next.x /\ next.x <= y
        /\ InBounds(a, next.l)
        /\ At(a, k) = next.x
        /\ At(a, next.l) = y
        /\ k = entered.k /\ next.l = entered.l

C13_Witness ==
    /\ next.tag = "B" /\ entered.steps >= 1 /\ n = 8 /\ k = 0
    /\ next.x = 4 /\ y = 4

\* s comes before t in lexicographic order
LexLess(s, t) ==
    \/ Len(s) < Len(t) /\ s = SubSeq(t, 1, Len(s))
    \/ \E i \in 1..Len(s) :
          /\ i <= Len(t)
          /\ SubSeq(s, 1, i - 1) = SubSeq(t, 1, i - 1)
          /\ s[i] < t[i]

Ones(m) == [i \in 1..m |-> 1]

\* C14: for n >= 1 the partitions are emitted in strictly increasing
\* lexicographic order: the first is n ones, the last is [n], and each view is
\* lexicographically greater than the one before it.
C14_LexOrder ==
    n >= 1 =>
        /\ emitted # <<>> => emitted[1] = Ones(n)
        /\ \A i \in 1..(Len(emitted) - 1) : LexLess(emitted[i], emitted[i + 1])
        /\ Exhausted => emitted[Len(emitted)] = <<n>>

C14_Witness ==
    /\ Exhausted /\ n = 5
    /\ emitted[1] = Ones(5) /\ emitted[Len(emitted)] = <<5>> /\ Len(emitted) = 7

\* C15: for n >= 1, between advance calls, y accounts for what is not in the
\* settled prefix: sum(a[0..k)) + y + 1 = n in State::A and
\* sum(a[0..k)) + x + y = n in State::B.
C15_Remainder ==
    n >= 1 =>
        /\ k <= Len(a)
        /\ next = A => Sum(SubSeq(a, 1, k)) + y + 1 = n
        /\ next.tag = "B" => Sum(SubSeq(a, 1, k)) + next.x + y = n

C15_Witness ==
    /\ n = 8 /\ next.tag = "B" /\ k = 2 /\ next.x = 2
    /\ Sum(SubSeq(a, 1, k)) = 4

\* C16: the buffer has length n + 1 from construction on (1 for n = 0) and no
\* advance and no get changes its length.
C16_Length ==
    /\ [](Len(a) = n + 1 /\ (n = 0 => Len(a) = 1))
    /\ [][(op' = "advance" \/ op' = "get") => Len(a') = Len(a)]_vars

C16_Witness ==
    /\ built = "recycle" /\ runs = 2 /\ Len(storage) > n + 1
    /\ n = 2 /\ Exhausted /\ Len(a) = 3

\* C17: for n >= 1, after an advance, get returns a[0..=l] (length k + 2) in
\* State::B and a[0..=k] (length k + 1) in State::A unless the generator is
\* exhausted; get returns None only in State::A with k = 0 and a[0] = 0.
C17_ActiveRegion ==
    LET g == get(this) IN
    /\ (n >= 1 /\ advanced /\ next.tag = "B") =>
          /\ g = Some(SubSeq(a, 1, next.l + 1))
          /\ Len(g.view) = k + 2
    /\ (n >= 1 /\ advanced /\ next = A /\ g # None) =>
          /\ g = Some(SubSeq(a, 1, k + 1))
          /\ Len(g.view) = k + 1
    /\ g = None => (next = A /\ k = 0 /\ At(a, 0) = 0)
    /\ (op = "get" /\ result = None) => (next = A /\ k = 0 /\ At(a, 0) = 0)

C17_Witness ==
    /\ n = 6 /\ advanced /\ op = "get" /\ next.tag = "B" /\ k = 1
    /\ result = Some(SubSeq(a, 1, 3))

\* C18: for n = 0 the single cell holds 1 after construction, 2 after the
\* first advance, 0 after the second and 0 from then on, while k = 0, y = 0 and
\* next = State::A never change; for n >= 1 an advance in State::A with k = 0
\* sets a[0] = 0 and never takes the branch that writes the sentinel 2.
C18_Sentinels ==
    /\ [](n = 0 => (k = 0 /\ y = 0 /\ next = A /\ a \in {<<0>>, <<1>>, <<2>>}))
    /\ []((n = 0 /\ ~advanced) => a = <<1>>)
    /\ [][(n = 0 /\ op' = "advance") =>
             a' = (IF a = <<1>> THEN <<2>> ELSE <<0>>)]_vars
    /\ [][(n >= 1 /\ next = A /\ k = 0 /\ op' = "advance") =>
             (At(a', 0) = 0 /\ ~(Len(a) = 1 /\ At(a, 0) = 1))]_vars

C18_Witness == n = 0 /\ past_end /\ a = <<0>> /\ emitted = << <<>> >> /\ op = "get"

====
